---- MODULE Spec2Model ----
(***************************************************************************)
(* Model of the roadmap ingestion-and-reconciliation pipeline of           *)
(* ImpactSolutionRoadmap.sh:                                               *)
(*   - the stream consumer  generateRoadmapStream  (services/geminiService) *)
(*   - extraction/validation  safeJsonParse, processStreamedResponse and    *)
(*     the sanitisation done in handleGenerate's onComplete                 *)
(*   - the history store and progress tracker of App                        *)
(*     (updateHistory, handleSaveOrUpdateRoadmap, handleLoadRoadmap,        *)
(*      handleDeleteRoadmap, handleToggleNodeCompletion, the load effect).  *)
(*                                                                         *)
(* Texts are sequences of tokens.  A roadmap id  roadmap_<t>  is modelled   *)
(* by the number t.  A nullable value is a sequence of length 0 or 1.       *)
(***************************************************************************)
EXTENDS Integers, Sequences, FiniteSets, TLC

VARIABLES
    appStatus,          \* "unmounted" | "running" | "broken" | "crashed"
    storage,            \* the localStorage slot LOCAL_STORAGE_HISTORY_KEY
    roadmapHistory,     \* useState<Roadmap[]>
    activeRoadmap,      \* useState<Roadmap | null>   (<<>> is null)
    isLoading,          \* useState(false)
    error,              \* useState<string | null>    (<<>> is null)
    streamingResponse,  \* useState('')
    accumulatedText,    \* the local of handleGenerate
    now,                \* the last value Date.now() returned
    streamPc,           \* position of generateRoadmapStream
    producer,           \* fragments the backend has still to yield
    yielded,            \* fragments the backend has yielded in this attempt
    fullText,           \* the local of generateRoadmapStream
    calls,              \* callback invocations of this attempt, in order
    lastOp,             \* the operation that produced the current state
    beforeAttempt,      \* SpecGenerate: the state its attempt started from
    views               \* SpecOverlap: the state local to each view

vars == <<appStatus, storage, roadmapHistory, activeRoadmap, isLoading, error,
          streamingResponse, accumulatedText, now, streamPc, producer,
          yielded, fullText, calls, lastOp, beforeAttempt, views>>

appVars == <<appStatus, storage, roadmapHistory, activeRoadmap, isLoading,
             error, streamingResponse, accumulatedText, now, beforeAttempt,
             views>>

streamVars == <<streamPc, producer, yielded, fullText, calls>>

----------------------------------------------------------------------------
(* Bounds *)

MaxClock == 1          \* Date.now() returns values in 1..MaxClock
MaxHistory == 2        \* saves are explored while the history is shorter
MaxFragments == 3      \* fragments one probe attempt may yield
MaxOverlapClock == 2   \* Date.now() of overlapping attempts: 1..MaxOverlapClock

----------------------------------------------------------------------------
(* Generic helpers *)

Null == <<>>

\* the application of App.tsx has no views with a state of their own
NoViews == <<>>

Some(x) == <<x>>

RECURSIVE Concat(_)
Concat(ss) == IF ss = <<>> THEN <<>> ELSE Head(ss) \o Concat(Tail(ss))

Indices(s) == 1..Len(s)

Min(S) == CHOOSE x \in S : \A y \in S : x <= y

----------------------------------------------------------------------------
(* Data model: types.ts *)

\* RoadmapNode (types.ts)
RoadmapNode(id, title, content, connections, references, completed) ==
    [id |-> id, title |-> title, content |-> content,
     connections |-> connections, references |-> references,
     completed |-> completed]

\* Roadmap (types.ts); id is the t of roadmap_<t>
Roadmap(id, generatedAt, title, description, nodes, sources) ==
    [id |-> id, generatedAt |-> generatedAt, title |-> title,
     description |-> description, nodes |-> nodes, sources |-> sources]

----------------------------------------------------------------------------
(* Array methods used by the handlers *)

\* Array.prototype.findIndex(r => r.id === id): 0-based, -1 when absent
findIndex(history, id) ==
    IF \E i \in Indices(history) : history[i].id = id
    THEN Min({i \in Indices(history) : history[i].id = id}) - 1
    ELSE -1

\* Array.prototype.some(r => r.id === id)
some(history, id) == \E i \in Indices(history) : history[i].id = id

\* mutant: the newest entry is found whatever the id
findNewest(history, id) ==
    IF history # <<>> THEN Some(history[1]) ELSE Null

\* Array.prototype.find(r => r.id === id), as a nullable
find(history, id) ==
    IF some(history, id) THEN Some(history[findIndex(history, id) + 1])
    ELSE Null

\* mutant: the predicate of the filter is inverted
filterOutInverted(history, id) ==
    LET keep(r) == r.id = id IN SelectSeq(history, keep)

\* Array.prototype.filter(r => r.id !== id)
filterOut(history, id) ==
    LET keep(r) == r.id # id IN SelectSeq(history, keep)

----------------------------------------------------------------------------
(* The storage slot.  JSON.stringify writes a roadmap as the list of its   *)
(* property values in declaration order; JSON.parse reads it back.         *)

stringifyNode(n) ==
    <<n.id, n.title, n.content, n.connections, n.references, n.completed>>

parseNode(t) == RoadmapNode(t[1], t[2], t[3], t[4], t[5], t[6])

stringifyRoadmap(r) ==
    <<r.id, r.generatedAt, r.title, r.description,
      [i \in Indices(r.nodes) |-> stringifyNode(r.nodes[i])], r.sources>>

parseRoadmap(t) ==
    Roadmap(t[1], t[2], t[3], t[4],
            [i \in Indices(t[5]) |-> parseNode(t[5][i])], t[6])

\* JSON.stringify(newHistory)
stringify(history) ==
    [kind |-> "collection",
     items |-> [i \in Indices(history) |-> stringifyRoadmap(history[i])]]

\* slot contents that are not the serialization of a collection
AbsentSlot == [kind |-> "absent", items |-> <<>>]    \* getItem returns null
EmptySlot == [kind |-> "empty", items |-> <<>>]      \* the empty string
CorruptSlot == [kind |-> "corrupt", items |-> <<>>]  \* text that is not JSON
ForeignSlot == [kind |-> "foreign", items |-> <<>>]  \* JSON, not a roadmap array

\* JSON.parse(storedHistory) for a slot holding a serialized collection
parseCollection(slot) ==
    [i \in Indices(slot.items) |-> parseRoadmap(slot.items[i])]

\* a roadmap saved by an earlier session
StoredRoadmap ==
    Roadmap(0, 0, "Stored", "",
            <<RoadmapNode("a", "A", "x", <<>>, <<>>, TRUE)>>, <<>>)

InitialSlots ==
    {AbsentSlot, EmptySlot, CorruptSlot, ForeignSlot,
     stringify(<<>>), stringify(<<StoredRoadmap>>)}

----------------------------------------------------------------------------
(* Operation log *)

Op(name, id, node, hit) == [op |-> name, id |-> id, node |-> node, hit |-> hit]

NoOp == Op("init", 0, "", FALSE)

----------------------------------------------------------------------------
(* App: the history load effect *)

\* useEffect(() => { getItem; if (storedHistory) setRoadmapHistory(JSON.parse) })
Mount ==
    /\ appStatus = "unmounted"
    /\ appStatus' = CASE storage.kind = "corrupt" -> "crashed"
                      [] storage.kind = "foreign" -> "broken"
                      [] OTHER -> "running"
    /\ roadmapHistory' = IF storage.kind = "collection"
                         THEN parseCollection(storage) ELSE <<>>
    /\ lastOp' = Op("mount", 0, "", storage.kind = "collection")
    /\ UNCHANGED <<storage, activeRoadmap, isLoading, error, streamingResponse,
                   accumulatedText, now,
                   beforeAttempt, views>>
    /\ UNCHANGED streamVars

\* a render that reads roadmapHistory (HistoryPanel's history.map, or
\* roadmapHistory.some for isSaved) while it holds a value that is no array
RenderForeignHistory ==
    /\ appStatus = "broken"
    /\ appStatus' = "crashed"
    /\ lastOp' = Op("render", 0, "", FALSE)
    /\ UNCHANGED <<storage, roadmapHistory, activeRoadmap, isLoading, error,
                   streamingResponse, accumulatedText, now,
                   beforeAttempt, views>>
    /\ UNCHANGED streamVars

----------------------------------------------------------------------------
(* App: history store and progress tracker *)

\* mutant: the slot is written before the new history is known
updateHistoryStale(newHistory) == <<newHistory, stringify(<<>>)>>

\* updateHistory: the pair <<roadmapHistory', storage'>> it leaves
updateHistory(newHistory) == <<newHistory, stringify(newHistory)>>

\* mutant: the roadmap is always added as a new entry
upsertPrepends(history, roadmap) == <<roadmap>> \o history

\* mutant: an updated entry is moved to the front
upsertMovesToFront(history, roadmap) ==
    <<roadmap>> \o filterOut(history, roadmap.id)

\* mutant: an entry that exists is left as it was
upsertKeepsFirst(history, roadmap) ==
    IF findIndex(history, roadmap.id) > -1 THEN history
    ELSE <<roadmap>> \o history

\* the history handleSaveOrUpdateRoadmap hands to updateHistory
upsert(history, roadmap) ==
    LET existingIndex == findIndex(history, roadmap.id) IN
    IF existingIndex > -1
    THEN [history EXCEPT ![existingIndex + 1] = roadmap]
    ELSE <<roadmap>> \o history

\* RoadmapDisplay (and so Save and the node toggles) is rendered only
\* when activeRoadmap && !isLoading
DisplayRendered == activeRoadmap # Null /\ ~isLoading

handleSaveOrUpdateRoadmap ==
    /\ appStatus = "running"
    /\ DisplayRendered
    /\ LET active == activeRoadmap[1]
           saved == some(roadmapHistory, active.id)
           upd == updateHistory(upsert(roadmapHistory, active))
       IN /\ saved \/ Len(roadmapHistory) < MaxHistory
          /\ roadmapHistory' = upd[1]
          /\ storage' = upd[2]
          /\ lastOp' = Op("save", active.id, "", saved)
    /\ UNCHANGED <<appStatus, activeRoadmap, isLoading, error,
                   streamingResponse, accumulatedText, now,
                   beforeAttempt, views>>
    /\ UNCHANGED streamVars

handleLoadRoadmap(id) ==
    /\ appStatus = "running"
    /\ LET roadmapToLoad == find(roadmapHistory, id) IN
         /\ activeRoadmap' = IF roadmapToLoad # Null THEN roadmapToLoad
                             ELSE activeRoadmap
         /\ lastOp' = Op("load", id, "", roadmapToLoad # Null)
    /\ UNCHANGED <<appStatus, storage, roadmapHistory, isLoading, error,
                   streamingResponse, accumulatedText, now,
                   beforeAttempt, views>>
    /\ UNCHANGED streamVars

\* mutant: the active roadmap is kept when its entry is deleted
handleDeleteRoadmapKeepsActive(id) ==
    /\ appStatus = "running"
    /\ LET upd == updateHistory(filterOut(roadmapHistory, id)) IN
         /\ roadmapHistory' = upd[1]
         /\ storage' = upd[2]
    /\ lastOp' = Op("delete", id, "", some(roadmapHistory, id))
    /\ UNCHANGED <<appStatus, activeRoadmap, isLoading, error,
                   streamingResponse, accumulatedText, now,
                   beforeAttempt, views>>
    /\ UNCHANGED streamVars

handleDeleteRoadmap(id) ==
    /\ appStatus = "running"
    /\ LET upd == updateHistory(filterOut(roadmapHistory, id)) IN
         /\ roadmapHistory' = upd[1]
         /\ storage' = upd[2]
    /\ activeRoadmap' = IF activeRoadmap # Null /\ activeRoadmap[1].id = id
                        THEN Null ELSE activeRoadmap
    /\ lastOp' = Op("delete", id, "", some(roadmapHistory, id))
    /\ UNCHANGED <<appStatus, isLoading, error, streamingResponse,
                   accumulatedText, now,
                   beforeAttempt, views>>
    /\ UNCHANGED streamVars

\* activeRoadmap.nodes.map(node => node.id === nodeId ? {...} : node)
toggleNodes(nodes, nodeId) ==
    [i \in Indices(nodes) |->
        IF nodes[i].id = nodeId
        THEN [nodes[i] EXCEPT !.completed = ~nodes[i].completed]
        ELSE nodes[i]]

\* mutant: the history entry is not replaced
replaceByIdStale(history, updatedRoadmap) == history

\* mutant: the updated entry becomes the newest
replaceByIdMovesToFront(history, updatedRoadmap) ==
    <<updatedRoadmap>> \o filterOut(history, updatedRoadmap.id)

\* roadmapHistory.map(r => r.id === updatedRoadmap.id ? updatedRoadmap : r)
replaceById(history, updatedRoadmap) ==
    [i \in Indices(history) |->
        IF history[i].id = updatedRoadmap.id THEN updatedRoadmap
        ELSE history[i]]

\* mutant: the toggle persists whether or not the roadmap is saved
isSavedAlways(history, updatedRoadmap) == TRUE

\* roadmapHistory.some(r => r.id === updatedRoadmap.id)
isSavedIn(history, updatedRoadmap) == some(history, updatedRoadmap.id)

handleToggleNodeCompletion(nodeId) ==
    /\ appStatus = "running"
    /\ DisplayRendered
    /\ LET updatedRoadmap ==
             [activeRoadmap[1] EXCEPT
                !.nodes = toggleNodes(activeRoadmap[1].nodes, nodeId)]
           isSaved == isSavedIn(roadmapHistory, updatedRoadmap)
           upd == updateHistory(replaceById(roadmapHistory, updatedRoadmap))
       IN /\ activeRoadmap' = Some(updatedRoadmap)
          /\ roadmapHistory' = IF isSaved THEN upd[1] ELSE roadmapHistory
          /\ storage' = IF isSaved THEN upd[2] ELSE storage
          /\ lastOp' = Op("toggle", updatedRoadmap.id, nodeId, isSaved)
    /\ UNCHANGED <<appStatus, isLoading, error, streamingResponse,
                   accumulatedText, now,
                   beforeAttempt, views>>
    /\ UNCHANGED streamVars

----------------------------------------------------------------------------
(* Texts.  A text is a sequence of tokens: the triple-backtick fence, the    *)
(* tag json, white space, the braces, prose, and one token per JSON body.   *)

Fence == "FENCE"      \* the three backticks

IsSpace(t) == t = " "

\* mutant: the text is taken to start with the opening brace
indexOfAssumesStart(text, t) == 0

\* String.prototype.indexOf / lastIndexOf, 0-based, -1 when absent
indexOf(text, t) ==
    IF \E i \in Indices(text) : text[i] = t
    THEN Min({i \in Indices(text) : text[i] = t}) - 1
    ELSE -1

\* mutant: the last character of the text is taken for the closing brace
lastIndexOfAssumesEnd(text, t) == Len(text) - 1

lastIndexOf(text, t) ==
    IF \E i \in Indices(text) : text[i] = t
    THEN (CHOOSE i \in Indices(text) :
             text[i] = t /\ \A j \in Indices(text) : text[j] = t => j <= i) - 1
    ELSE -1

\* String.prototype.substring(from, to), 0-based, to exclusive
substring(text, from, to) == SubSeq(text, from + 1, to)

\* the closing  \s* fence  can be matched right after position e
ClosesAfter(text, e) ==
    \E t \in (e + 1)..Len(text) :
        /\ text[t] = Fence
        /\ \A q \in (e + 1)..(t - 1) : IsSpace(text[q])

\* the fence pattern  F(?:json)?\s*([\s\S]+?)\s*F  tried at the fence at i:
\* the attempts <<o, s, e>> that succeed, where o = 0 when the tag is
\* consumed, s is where the capture starts and e where it ends
FenceAttempts(text, i) ==
    LET tagged == i + 1 <= Len(text) /\ text[i + 1] = "json"
        afterTag(o) == IF o = 0 THEN i + 2 ELSE i + 1
        spaceRun(p, s) == \A q \in p..(s - 1) : IsSpace(text[q])
    IN {a \in ((IF tagged THEN {0, 1} ELSE {1}) \X Indices(text)
                    \X Indices(text)) :
          /\ a[2] >= afterTag(a[1])
          /\ spaceRun(afterTag(a[1]), a[2])
          /\ a[3] >= a[2]
          /\ ClosesAfter(text, a[3])}

\* mutant: the capture is greedy
FirstAttemptGreedy(A) ==
    CHOOSE a \in A : \A b \in A :
        \/ a[1] < b[1]
        \/ a[1] = b[1] /\ a[2] > b[2]
        \/ a[1] = b[1] /\ a[2] = b[2] /\ a[3] >= b[3]

\* the attempt the backtracking order reaches first: the tag consumed if
\* possible, then the longest run of leading space, then the shortest capture
FirstAttempt(A) ==
    CHOOSE a \in A : \A b \in A :
        \/ a[1] < b[1]
        \/ a[1] = b[1] /\ a[2] > b[2]
        \/ a[1] = b[1] /\ a[2] = b[2] /\ a[3] <= b[3]

\* text.match(fence pattern): match[1] as a nullable
fenceMatch(text) ==
    LET starts == {i \in Indices(text) :
                      text[i] = Fence /\ FenceAttempts(text, i) # {}}
    IN IF starts = {} THEN Null
       ELSE LET a == FirstAttempt(FenceAttempts(text, Min(starts)))
            IN Some(SubSeq(text, a[2], a[3]))

----------------------------------------------------------------------------
(* JSON values the backend's text can denote *)

Undefined == "<undefined>"

\* JavaScript truthiness of a string or undefined
Truthy(x) == x # Undefined /\ x # ""

Array(items) == [isArray |-> TRUE, items |-> items]

NotArray == [isArray |-> FALSE, items |-> <<>>]

JsonNode(id, title, content, connections, references) ==
    [id |-> id, title |-> title, content |-> content,
     connections |-> connections, references |-> references]

JsonRoadmap(title, description, nodes) ==
    [title |-> title, description |-> description, nodes |-> nodes]

\* a JSON number that is truthy, where a string is expected
Number42 == "<number 42>"

\* typeof x === 'string'
IsString(x) == x \notin {Undefined, Number42}

\* properties of the input that onComplete never reads
OwnedByInput == [id |-> 9, generatedAt |-> 7]

CompletedByInput == [completed |-> TRUE]

\* the JSON value null as an element of nodes
JsonNull == [isNull |-> TRUE]

IsNull(n) == "isNull" \in DOMAIN n

\* the object each body token stands for
Bodies == {"u", "d", "m", "n", "t", "e", "x", "c", "g", "y", "z"}

BodyObject(b) ==
    CASE b = "u" ->
           JsonRoadmap("T", "D",
              Array(<<JsonNode("a", "A", "x", Array(<<"b">>), Array(<<"r">>)),
                      JsonNode("b", Undefined, Undefined, NotArray, NotArray)>>))
      [] b = "d" ->
           JsonRoadmap("T2", Undefined,
              Array(<<JsonNode("a", "A", "x", Array(<<>>), NotArray),
                      JsonNode("a", "B", "y", Array(<<>>), NotArray)>>))
      [] b = "m" ->
           JsonRoadmap("T", "",
              Array(<<JsonNode(Undefined, "A", "", NotArray, Array(<<>>))>>))
      [] b = "n" ->
           JsonRoadmap(Undefined, "D",
              Array(<<JsonNode("a", "A", "x", Array(<<>>), Array(<<>>))>>))
      [] b = "t" ->
           JsonRoadmap(Number42, "D",
              Array(<<JsonNode("a", "A", "x", Array(<<>>), Array(<<>>))>>))
      [] b = "e" ->
           JsonRoadmap("", "D",
              Array(<<JsonNode("a", "A", "x", Array(<<>>), Array(<<>>))>>))
      [] b = "x" ->
           JsonRoadmap("T", "D", NotArray)
      [] b = "c" ->
           JsonRoadmap("T", "D",
              Array(<<JsonNode("a", "A", "x", Array(<<>>), Array(<<>>))
                        @@ CompletedByInput,
                      JsonNode("b", "B", "y", Array(<<"a">>), NotArray)>>))
           @@ OwnedByInput
      [] b = "g" ->
           JsonRoadmap("T", "D",
              Array(<<JsonNode(Undefined, "A", "x", Array(<<>>), Array(<<>>)),
                      JsonNode("", "B", "y", Array(<<>>), Array(<<>>))>>))
      [] b = "y" ->
           JsonRoadmap("T", Number42,
              Array(<<JsonNode("a", Number42, Number42, NotArray, NotArray)>>))
      [] b = "z" ->
           JsonRoadmap("T", "D",
              Array(<<JsonNode("a", "A", "x", Array(<<>>), Array(<<>>)),
                      JsonNull>>))

EmptyObject == JsonRoadmap(Undefined, Undefined, NotArray)

\* canonical roadmaps: what the application itself produces and stores.
\* The content of a node is Markdown; in CanonicalCode it holds a code fence.
CanonicalPlain ==
    Roadmap(5, 5, "T", "D",
            <<RoadmapNode("a", "A", "x", <<"b">>, <<"r">>, TRUE),
              RoadmapNode("b", "B", "y", <<>>, <<>>, FALSE)>>, <<>>)

CanonicalCode ==
    Roadmap(6, 6, "T3", "",
            <<RoadmapNode("a", "A", Fence, <<>>, <<>>, FALSE)>>, <<>>)

CanonicalRoadmaps == {CanonicalPlain, CanonicalCode}

\* the token that stands for the keys and the plain characters of a document
documentName(R) ==
    CASE R = CanonicalPlain -> "k1"
      [] R = CanonicalCode -> "k2"

\* the code fences the string values of a document carry into its JSON text
codeFences(R) ==
    Concat([i \in Indices(R.nodes) |->
              IF R.nodes[i].content = Fence THEN <<Fence>> ELSE <<>>])

\* JSON.stringify of a roadmap whose nodes have their completed flag removed
JSONstringifyStripped(R) ==
    <<"{", documentName(R)>> \o codeFences(R) \o <<"}">>

\* the object JSON.parse gives back for that text
strippedObject(R) ==
    JsonRoadmap(R.title, R.description,
                Array([i \in Indices(R.nodes) |->
                         JsonNode(R.nodes[i].id, R.nodes[i].title,
                                  R.nodes[i].content,
                                  Array(R.nodes[i].connections),
                                  Array(R.nodes[i].references))]))
    @@ [id |-> R.id, generatedAt |-> R.generatedAt]

\* JSON.parse(jsonText), as a nullable (null: it throws SyntaxError);
\* white space between the tokens of a JSON text is insignificant
JSONparse(jsonText) ==
    LET NotSpace(t) == ~IsSpace(t)
        dense == SelectSeq(jsonText, NotSpace)
    IN IF dense = <<"{", "}">> THEN Some(EmptyObject)
       ELSE IF Len(dense) = 3 /\ dense[1] = "{" /\ dense[3] = "}"
               /\ dense[2] \in Bodies
       THEN Some(BodyObject(dense[2]))
       ELSE IF \E R \in CanonicalRoadmaps : dense = JSONstringifyStripped(R)
       THEN Some(strippedObject(
                CHOOSE R \in CanonicalRoadmaps :
                    dense = JSONstringifyStripped(R)))
       ELSE Null

----------------------------------------------------------------------------
(* services/geminiService: extraction and validation *)

ErrorValue(kind, message) == [kind |-> kind, message |-> message]

\* the subclasses of Error the model distinguishes
ErrorKinds == {"Error", "SyntaxError", "TypeError"}

Returned(v) == [ok |-> TRUE, value |-> Some(v), thrown |-> Null]

Thrown(e) == [ok |-> FALSE, value |-> Null, thrown |-> Some(e)]

NoJsonMessage ==
    <<"Could not extract a valid JSON object from the AI's response.">>

MalformedMessage(text) ==
    <<"AI returned a malformed JSON response. The model's output could not be parsed. Original text: ">>
    \o text

InvalidStructureMessage ==
    <<"AI failed to generate a valid roadmap structure. The response was missing critical fields like title or nodes.">>

\* mutant: a fenced candidate that does not parse is retried with the brace
\* rule
safeJsonParseFallsBack(text) ==
    LET match == fenceMatch(text)
        firstBrace == indexOf(text, "{")
        lastBrace == lastIndexOf(text, "}")
        braces == firstBrace # -1 /\ lastBrace > firstBrace
        braceText == substring(text, firstBrace, lastBrace + 1)
    IN IF match # Null /\ JSONparse(match[1]) # Null
       THEN Returned(JSONparse(match[1])[1])
       ELSE IF ~braces
       THEN Thrown(ErrorValue("Error", NoJsonMessage))
       ELSE IF JSONparse(braceText) = Null
       THEN Thrown(ErrorValue("Error", MalformedMessage(text)))
       ELSE Returned(JSONparse(braceText)[1])

safeJsonParse(text) ==
    LET match == fenceMatch(text)
        firstBrace == indexOf(text, "{")
        lastBrace == lastIndexOf(text, "}")
        found == match # Null \/ (firstBrace # -1 /\ lastBrace > firstBrace)
        jsonText == IF match # Null THEN match[1]
                    ELSE substring(text, firstBrace, lastBrace + 1)
    IN IF ~found THEN Thrown(ErrorValue("Error", NoJsonMessage))
       ELSE IF JSONparse(jsonText) = Null
       THEN Thrown(ErrorValue("Error", MalformedMessage(text)))
       ELSE Returned(JSONparse(jsonText)[1])

processStreamedResponse(text) ==
    LET parsed == safeJsonParse(text) IN
    IF ~parsed.ok THEN parsed
    ELSE LET roadmapData == parsed.value[1] IN
         IF ~Truthy(roadmapData.title) \/ ~roadmapData.nodes.isArray
         THEN Thrown(ErrorValue("Error", InvalidStructureMessage))
         ELSE Returned(roadmapData)

----------------------------------------------------------------------------
(* App.handleGenerate: what onComplete builds from the validated object *)

\* the values of 'node-' + Math.random().toString(36).substr(2, 9)
RandomNodeIds == {"node-r1", "node-r2"}

\* (generatedData.nodes || []).map(n => ({ ... })); random[i] is the token
\* Math.random() gives for the i-th node
sanitizedNodes(generatedData, random) ==
    LET nodes == generatedData.nodes.items IN
    [i \in Indices(nodes) |->
        RoadmapNode(
            IF Truthy(nodes[i].id) THEN nodes[i].id ELSE random[i],
            IF Truthy(nodes[i].title) THEN nodes[i].title ELSE "Untitled Node",
            IF Truthy(nodes[i].content) THEN nodes[i].content
            ELSE "No content provided.",
            IF nodes[i].connections.isArray THEN nodes[i].connections.items
            ELSE <<>>,
            IF nodes[i].references.isArray THEN nodes[i].references.items
            ELSE <<>>,
            FALSE)]

NullElementMessage == <<"Cannot read properties of null (reading 'id')">>

\* the map callback reads n.id: it throws TypeError on an element that is
\* null, inside the try block of onComplete
sanitizeOutcome(generatedData) ==
    IF \E i \in Indices(generatedData.nodes.items) :
          IsNull(generatedData.nodes.items[i])
    THEN Thrown(ErrorValue("TypeError", NullElementMessage))
    ELSE Returned(generatedData)

\* mutant: an id and a timestamp carried by the input are kept
newRoadmapTrustsInput(generatedData, random, dateNow) ==
    Roadmap(IF "id" \in DOMAIN generatedData THEN generatedData.id
            ELSE dateNow,
            IF "generatedAt" \in DOMAIN generatedData
            THEN generatedData.generatedAt ELSE dateNow,
            generatedData.title, "", sanitizedNodes(generatedData, random),
            <<>>)

newRoadmap(generatedData, random, dateNow) ==
    Roadmap(dateNow, dateNow,
            IF Truthy(generatedData.title) THEN generatedData.title
            ELSE "Untitled Roadmap",
            IF Truthy(generatedData.description) THEN generatedData.description
            ELSE "",
            sanitizedNodes(generatedData, random),
            <<>>)

----------------------------------------------------------------------------
(* services/geminiService: generateRoadmapStream.  One attempt is a record *)
(* of its position, the fragments still to come, the fragments yielded,    *)
(* the accumulator and the callback invocations made so far.               *)

Call(cb, text, err) == [cb |-> cb, text |-> text, err |-> err]

Attempt(pc, pending, seen, text, log) ==
    [pc |-> pc, producer |-> pending, yielded |-> seen, fullText |-> text,
     calls |-> log]

Current == Attempt(streamPc, producer, yielded, fullText, calls)

Idle == Attempt("idle", <<>>, <<>>, <<>>, <<>>)

SetAttempt(a) ==
    /\ streamPc' = a.pc
    /\ producer' = a.producer
    /\ yielded' = a.yielded
    /\ fullText' = a.fullText
    /\ calls' = a.calls

UnknownErrorMessage ==
    <<"Failed to generate roadmap. An unknown error occurred.">>

StreamSyntaxErrorMessage ==
    <<"AI returned a malformed JSON response. The model's output could not be parsed.">>

\* the catch block: the Error handed to onError for a thrown value
onErrorArgument(thrown) ==
    IF thrown.kind = "SyntaxError"
    THEN ErrorValue("Error", StreamSyntaxErrorMessage)
    ELSE IF thrown.kind \in ErrorKinds THEN thrown
    ELSE ErrorValue("Error", UnknownErrorMessage)

\* the catch block: onError is called; the promise rejects when it throws
catch(a, thrown, errorThrows) ==
    [a EXCEPT !.calls = Append(a.calls,
                               Call("onError", <<>>,
                                    Some(onErrorArgument(thrown)))),
              !.pc = IF errorThrows THEN "rejected" ELSE "returned"]

\* mutant: the accumulator prepends
accumulatePrepends(text, chunkText) == chunkText \o text

\* mutant: the accumulator keeps the last fragment only
accumulateOverwrites(text, chunkText) == chunkText

\* fullText += chunkText
accumulate(text, chunkText) == text \o chunkText

\* one turn of  for await (const chunk of responseStream) : the producer
\* yields its next fragment; cbThrown is the value onChunk throws, if any
consumeChunk(a, cbThrown, errorThrows) ==
    LET chunkText == Head(a.producer)
        taken == [a EXCEPT !.producer = Tail(a.producer),
                           !.yielded = Append(a.yielded, chunkText)]
        called == [taken EXCEPT
                     !.fullText = accumulate(a.fullText, chunkText),
                     !.calls = Append(a.calls, Call("onChunk", chunkText, Null))]
    IN IF chunkText = <<>> THEN taken
       ELSE IF cbThrown = Null THEN called
       ELSE catch(called, cbThrown[1], errorThrows)

\* the producer is exhausted: onComplete(fullText)
consumeEnd(a, cbThrown, errorThrows) ==
    LET called == [a EXCEPT
                     !.calls = Append(a.calls,
                                      Call("onComplete", a.fullText, Null)),
                     !.pc = "returned"]
    IN IF cbThrown = Null THEN called
       ELSE catch(called, cbThrown[1], errorThrows)

\* the SDK call or the producer throws
consumeThrow(a, thrown, errorThrows) == catch(a, thrown, errorThrows)

\* values the SDK, the producer and the file reader throw
ThrownValues ==
    {ErrorValue("Error", <<"network down">>),
     ErrorValue("SyntaxError", <<"Unexpected token">>),
     ErrorValue("NonError", <<"quota">>)}

----------------------------------------------------------------------------
(* App.handleGenerate *)

\* the backend's responses, as fragment sequences
Responses ==
    {<< <<"{", "u">>, <<>>, <<"}">> >>,
     << <<"p", Fence, "json", " ", "{", "d", "}">>, <<" ", Fence, "p">> >>,
     << <<"{", "n", "}">> >>,
     << <<"p">> >>}

\* if (!prompt.trim()) { setError(...); return; }
handleGenerateEmptyPrompt ==
    /\ appStatus = "running"
    /\ streamPc = "idle"
    /\ error' = Some(<<"Prompt cannot be empty.">>)
    /\ lastOp' = Op("emptyPrompt", 0, "", FALSE)
    /\ UNCHANGED <<appStatus, storage, roadmapHistory, activeRoadmap,
                   isLoading, streamingResponse, accumulatedText, now,
                   beforeAttempt, views>>
    /\ UNCHANGED streamVars

\* the synchronous head of handleGenerate, up to its first await
handleGenerateStart(withFiles, response) ==
    /\ appStatus = "running"
    /\ streamPc = "idle"
    /\ isLoading' = TRUE
    /\ error' = Null
    /\ activeRoadmap' = Null
    /\ streamingResponse' = <<>>
    /\ accumulatedText' = <<>>
    /\ SetAttempt(Attempt(IF withFiles THEN "reading" ELSE "streaming",
                          response, <<>>, <<>>, <<>>))
    /\ lastOp' = Op("generate", 0, "", withFiles)
    /\ UNCHANGED <<appStatus, storage, roadmapHistory, now, beforeAttempt,
                   views>>

SetupErrorMessage ==
    <<"An unknown error occurred during setup for roadmap generation.">>

\* mutant: the outer catch stops loading and reports nothing
readFilesFailsSilently(err) ==
    /\ appStatus = "running"
    /\ streamPc = "reading"
    /\ isLoading' = FALSE
    /\ SetAttempt(Idle)
    /\ lastOp' = Op("setupFailed", 0, err.message[1], err.kind \in ErrorKinds)
    /\ UNCHANGED <<appStatus, storage, roadmapHistory, activeRoadmap, error,
                   streamingResponse, accumulatedText, now,
                   beforeAttempt, views>>

\* readFilesAsText rejects: the outer catch of handleGenerate
readFilesFails(err) ==
    /\ appStatus = "running"
    /\ streamPc = "reading"
    /\ error' = Some(IF err.kind \in ErrorKinds THEN err.message
                     ELSE SetupErrorMessage)
    /\ isLoading' = FALSE
    /\ SetAttempt(Idle)
    /\ lastOp' = Op("setupFailed", 0, err.message[1], err.kind \in ErrorKinds)
    /\ UNCHANGED <<appStatus, storage, roadmapHistory, activeRoadmap,
                   streamingResponse, accumulatedText, now,
                   beforeAttempt, views>>

\* readFilesAsText resolves and generateRoadmapStream is entered
readFilesDone ==
    /\ appStatus = "running"
    /\ streamPc = "reading"
    /\ streamPc' = "streaming"
    /\ lastOp' = Op("filesRead", 0, "", FALSE)
    /\ UNCHANGED appVars
    /\ UNCHANGED <<producer, yielded, fullText, calls>>

\* a fragment arrives; the onChunk of handleGenerate never throws
fragmentArrives ==
    /\ appStatus = "running"
    /\ streamPc = "streaming"
    /\ producer # <<>>
    /\ LET chunkText == Head(producer) IN
         /\ accumulatedText' = IF chunkText = <<>> THEN accumulatedText
                               ELSE accumulatedText \o chunkText
         /\ streamingResponse' = IF chunkText = <<>> THEN streamingResponse
                                 ELSE accumulatedText \o chunkText
         /\ lastOp' = Op("chunk", 0, "", chunkText # <<>>)
    /\ SetAttempt(consumeChunk(Current, Null, FALSE))
    /\ UNCHANGED <<appStatus, storage, roadmapHistory, activeRoadmap,
                   isLoading, error, now, beforeAttempt, views>>

\* the stream ends: the onComplete of handleGenerate, which catches what
\* it throws; generateRoadmapStream returns and the attempt's locals die
streamCompletes ==
    /\ appStatus = "running"
    /\ streamPc = "streaming"
    /\ producer = <<>>
    /\ LET done == consumeEnd(Current, Null, FALSE)
           validated == processStreamedResponse(done.fullText)
           generatedData == IF validated.ok
                            THEN sanitizeOutcome(validated.value[1])
                            ELSE validated
       IN /\ done.pc = "returned"
          /\ IF generatedData.ok
             THEN /\ \E dateNow \in (now + 1)..MaxClock :
                     \E random \in [Indices(generatedData.value[1].nodes.items)
                                      -> RandomNodeIds] :
                        /\ activeRoadmap' =
                             Some(newRoadmap(generatedData.value[1], random,
                                             dateNow))
                        /\ now' = dateNow
                        /\ lastOp' = Op("complete", dateNow, "", TRUE)
                  /\ UNCHANGED error
             ELSE /\ error' = Some(generatedData.thrown[1].message)
                  /\ lastOp' = Op("complete", 0, "", FALSE)
                  /\ UNCHANGED <<activeRoadmap, now>>
    /\ isLoading' = FALSE
    /\ SetAttempt(Idle)
    /\ UNCHANGED <<appStatus, storage, roadmapHistory, streamingResponse,
                   accumulatedText, beforeAttempt, views>>

\* mutant: onError leaves the loading flag set
streamFailsKeepsLoading(thrown) ==
    /\ appStatus = "running"
    /\ streamPc = "streaming"
    /\ LET failed == consumeThrow(Current, thrown, FALSE)
           streamError == failed.calls[Len(failed.calls)].err[1]
       IN /\ failed.pc = "returned"
          /\ error' = Some(streamError.message)
    /\ SetAttempt(Idle)
    /\ lastOp' = Op("failed", 0, thrown.message[1],
                    thrown.kind \in ErrorKinds)
    /\ UNCHANGED <<appStatus, storage, roadmapHistory, activeRoadmap,
                   isLoading, streamingResponse, accumulatedText, now,
                   beforeAttempt, views>>

\* the SDK call or the producer throws: the onError of handleGenerate
streamFails(thrown) ==
    /\ appStatus = "running"
    /\ streamPc = "streaming"
    /\ LET failed == consumeThrow(Current, thrown, FALSE)
           streamError == failed.calls[Len(failed.calls)].err[1]
       IN /\ failed.pc = "returned"
          /\ error' = Some(streamError.message)
    /\ isLoading' = FALSE
    /\ SetAttempt(Idle)
    /\ lastOp' = Op("failed", 0, thrown.message[1],
                    thrown.kind \in ErrorKinds)
    /\ UNCHANGED <<appStatus, storage, roadmapHistory, activeRoadmap,
                   streamingResponse, accumulatedText, now,
                   beforeAttempt, views>>

----------------------------------------------------------------------------
(* The application *)

RoadmapIds == 0..MaxClock

\* the node ids NodeCard can pass to onToggleCompletion
ActiveNodeIds ==
    IF activeRoadmap = Null THEN {}
    ELSE {activeRoadmap[1].nodes[j].id : j \in Indices(activeRoadmap[1].nodes)}

Init ==
    /\ appStatus = "unmounted"
    /\ storage \in InitialSlots
    /\ roadmapHistory = <<>>
    /\ activeRoadmap = Null
    /\ isLoading = FALSE
    /\ error = Null
    /\ streamingResponse = <<>>
    /\ accumulatedText = <<>>
    /\ now = 0
    /\ streamPc = "idle"
    /\ producer = <<>>
    /\ yielded = <<>>
    /\ fullText = <<>>
    /\ calls = <<>>
    /\ lastOp = NoOp
    /\ beforeAttempt = Null
    /\ views = NoViews

Next ==
    \/ Mount
    \/ RenderForeignHistory
    \/ handleGenerateEmptyPrompt
    \/ \E withFiles \in BOOLEAN, response \in Responses :
          handleGenerateStart(withFiles, response)
    \/ \E err \in ThrownValues : readFilesFails(err)
    \/ readFilesDone
    \/ fragmentArrives
    \/ streamCompletes
    \/ \E thrown \in ThrownValues : streamFails(thrown)
    \/ handleSaveOrUpdateRoadmap
    \/ \E id \in RoadmapIds : handleLoadRoadmap(id)
    \/ \E id \in RoadmapIds : handleDeleteRoadmap(id)
    \/ \E nodeId \in ActiveNodeIds : handleToggleNodeCompletion(nodeId)

Spec == Init /\ [][Next]_vars

----------------------------------------------------------------------------
(* generateRoadmapStream on its own: one attempt driven by a producer of   *)
(* bounded length, with callbacks that return or throw as they please.     *)

ProbeFragments == {<<>>, <<"x">>, <<"y", "z">>}

ProbeProducers == UNION {[1..n -> ProbeFragments] : n \in 0..MaxFragments}

\* what a supplied callback throws
CallbackThrows == {ErrorValue("Error", <<"callback failed">>)}

InitStream ==
    /\ appStatus = "probe"
    /\ storage = AbsentSlot
    /\ roadmapHistory = <<>>
    /\ activeRoadmap = Null
    /\ isLoading = FALSE
    /\ error = Null
    /\ streamingResponse = <<>>
    /\ accumulatedText = <<>>
    /\ now = 0
    /\ streamPc = "streaming"
    /\ producer \in ProbeProducers
    /\ yielded = <<>>
    /\ fullText = <<>>
    /\ calls = <<>>
    /\ lastOp = NoOp
    /\ beforeAttempt = Null
    /\ views = NoViews

\* the producer yields a fragment that is skipped or handed to onChunk,
\* which returns
probeChunk ==
    /\ streamPc = "streaming"
    /\ producer # <<>>
    /\ SetAttempt(consumeChunk(Current, Null, FALSE))
    /\ lastOp' = Op("probeChunk", 0, "", Head(producer) # <<>>)
    /\ UNCHANGED appVars

\* the producer yields a fragment and onChunk throws
probeChunkThrows(cbThrown, errorThrows) ==
    /\ streamPc = "streaming"
    /\ producer # <<>>
    /\ Head(producer) # <<>>
    /\ SetAttempt(consumeChunk(Current, Some(cbThrown), errorThrows))
    /\ lastOp' = Op("probeChunkThrows", 0, "", errorThrows)
    /\ UNCHANGED appVars

\* the producer is exhausted and onComplete returns
probeEnd ==
    /\ streamPc = "streaming"
    /\ producer = <<>>
    /\ SetAttempt(consumeEnd(Current, Null, FALSE))
    /\ lastOp' = Op("probeEnd", 0, "", FALSE)
    /\ UNCHANGED appVars

\* the producer is exhausted and onComplete throws
probeEndThrows(cbThrown, errorThrows) ==
    /\ streamPc = "streaming"
    /\ producer = <<>>
    /\ SetAttempt(consumeEnd(Current, Some(cbThrown), errorThrows))
    /\ lastOp' = Op("probeEndThrows", 0, "", errorThrows)
    /\ UNCHANGED appVars

\* the SDK call or the producer throws
probeProducerThrows(thrown, errorThrows) ==
    /\ streamPc = "streaming"
    /\ SetAttempt(consumeThrow(Current, thrown, errorThrows))
    /\ lastOp' = Op("probeProducerThrows", 0, "", errorThrows)
    /\ UNCHANGED appVars

NextStream ==
    \/ probeChunk
    \/ \E cbThrown \in CallbackThrows, errorThrows \in BOOLEAN :
          probeChunkThrows(cbThrown, errorThrows)
    \/ probeEnd
    \/ \E cbThrown \in CallbackThrows, errorThrows \in BOOLEAN :
          probeEndThrows(cbThrown, errorThrows)
    \/ \E thrown \in ThrownValues, errorThrows \in BOOLEAN :
          probeProducerThrows(thrown, errorThrows)

SpecStream == InitStream /\ [][NextStream]_vars

----------------------------------------------------------------------------
(* One generation attempt of the application on its own: the attempt starts *)
(* from a state with a saved history, with or without an active roadmap,    *)
(* and the backend answers with one of the texts below.                      *)

\* a JSON text inside a fenced block tagged json
FencedJson(jsonText) == <<Fence, "json", " ">> \o jsonText \o <<" ", Fence>>

\* responses that are one JSON object and nothing else
PlainResponses == {<< <<"{", b, "}">> >> : b \in Bodies}

\* responses that carry no JSON object
EmptyResponses ==
    {<<>>,
     << <<"p">> >>,
     << <<"}", "p", "{">> >>,
     << <<"{", "u">> >>,
     << <<Fence, "p">> >>}

\* responses that wrap a JSON object in prose and fences
WrappedResponses ==
    {<< <<"p">>, FencedJson(<<"{", "u", "}">>), <<"p">> >>,
     << <<"p", "{", "u", "}", "p">> >>,
     << <<Fence, "{", "u", "}", Fence, "p", Fence, "{", "d", "}", Fence>> >>,
     << <<Fence, " ", Fence, "{", "u", "}", Fence>> >>,
     << <<Fence, "p", Fence, "{", "u", "}">> >>,
     << <<Fence, "json", Fence, "{", "u", "}">> >>}

\* responses without a fenced block whose braces are not only those of the
\* JSON object
BraceResponses ==
    {<< <<"{", "u", "}", "p", "}">> >>,
     << <<Fence, "json", " ", "{", "u", "}">> >>}

\* canonical roadmaps sent back as fenced JSON
RoundTripResponses ==
    {<< FencedJson(JSONstringifyStripped(R)) >> : R \in CanonicalRoadmaps}

GenerateResponses ==
    PlainResponses \cup EmptyResponses \cup WrappedResponses
        \cup BraceResponses \cup RoundTripResponses

\* what the attempt finds: the active roadmap and the saved history
Snapshot ==
    [activeRoadmap |-> activeRoadmap, roadmapHistory |-> roadmapHistory,
     storage |-> storage]

InitGenerate ==
    /\ appStatus = "running"
    /\ roadmapHistory = <<StoredRoadmap>>
    /\ storage = stringify(roadmapHistory)
    /\ activeRoadmap \in {Null, Some(StoredRoadmap)}
    /\ isLoading = FALSE
    /\ error = Null
    /\ streamingResponse = <<>>
    /\ accumulatedText = <<>>
    /\ now = 0
    /\ streamPc = "idle"
    /\ producer = <<>>
    /\ yielded = <<>>
    /\ fullText = <<>>
    /\ calls = <<>>
    /\ lastOp = NoOp
    /\ beforeAttempt = Some(Snapshot)
    /\ views = NoViews

\* the user submits a prompt, once
attemptStarts(withFiles, response) ==
    /\ lastOp = NoOp
    /\ handleGenerateStart(withFiles, response)

NextGenerate ==
    \/ \E withFiles \in BOOLEAN, response \in GenerateResponses :
          attemptStarts(withFiles, response)
    \/ \E err \in ThrownValues : readFilesFails(err)
    \/ readFilesDone
    \/ fragmentArrives
    \/ streamCompletes
    \/ \E thrown \in ThrownValues : streamFails(thrown)

SpecGenerate == InitGenerate /\ [][NextGenerate]_vars

\* the events of an attempt in flight: the stream throws, the file reader
\* settles, the backend yields its next fragment, the stream ends
AttemptProgress ==
    \/ \E thrown \in ThrownValues : streamFails(thrown)
    \/ \E err \in ThrownValues : readFilesFails(err)
    \/ readFilesDone
    \/ fragmentArrives
    \/ streamCompletes

\* one attempt with a file reader and a backend that eventually settle
SpecGenerateFair == SpecGenerate /\ WF_vars(AttemptProgress)

----------------------------------------------------------------------------
(* Two views that generate into the one active roadmap.  The App that       *)
(* routes between views hands its setActiveRoadmap to RoadmapGeneratorView  *)
(* and to KnowledgeBaseView; each view keeps its own loading flag, error    *)
(* and attempt.  Of the latest attempt of a view the model remembers the    *)
(* outcome and whether it started before or after the other view's attempt  *)
(* that was in flight with it.                                               *)

ViewNames == {"roadmap", "template"}

OtherView(v) == IF v = "roadmap" THEN "template" ELSE "roadmap"

ViewState(loading, err, shown, attempt, outcome, overlapped) ==
    [isLoading |-> loading, error |-> err, streamingResponse |-> shown,
     attempt |-> attempt, outcome |-> outcome, overlapped |-> overlapped]

IdleView == ViewState(FALSE, Null, <<>>, Idle, Null, "no")

\* how an attempt ended: with the roadmap it installed, or with an error
Outcome(ok, roadmap) == [ok |-> ok, roadmap |-> roadmap]

OverlapResponses ==
    {<< <<"{", "u", "}">> >>,
     << <<"{", "d">>, <<"}">> >>,
     << <<"p">> >>}

\* mutant: a roadmap is installed only when none is active
setActiveRoadmapIfNone(current, value) ==
    IF current = Null THEN value ELSE current

\* setActiveRoadmap(value): the active roadmap it leaves
setActiveRoadmap(current, value) == value

InitOverlap ==
    /\ appStatus = "running"
    /\ roadmapHistory = <<StoredRoadmap>>
    /\ storage = stringify(roadmapHistory)
    /\ activeRoadmap \in {Null, Some(StoredRoadmap)}
    /\ isLoading = FALSE
    /\ error = Null
    /\ streamingResponse = <<>>
    /\ accumulatedText = <<>>
    /\ now = 0
    /\ streamPc = "idle"
    /\ producer = <<>>
    /\ yielded = <<>>
    /\ fullText = <<>>
    /\ calls = <<>>
    /\ lastOp = NoOp
    /\ beforeAttempt = Null
    /\ views = [v \in ViewNames |-> IdleView]

\* what no view and no attempt touches: the history, the storage slot and
\* the state of the single-view application
OverlapFrame ==
    UNCHANGED <<appStatus, storage, roadmapHistory, isLoading, error,
                streamingResponse, accumulatedText, streamPc, producer,
                yielded, fullText, calls, beforeAttempt>>

\* the synchronous head of handleGenerate (roadmap view, no context files)
\* and of handleGenerateTemplate (template view)
viewStart(v, response) ==
    /\ appStatus = "running"
    /\ ~views[v].isLoading
    /\ LET other == OtherView(v)
           overlap == views[other].attempt.pc = "streaming"
       IN /\ views' =
               [views EXCEPT
                  ![v] = ViewState(TRUE, Null, <<>>,
                                   Attempt("streaming", response, <<>>, <<>>,
                                           <<>>),
                                   Null, IF overlap THEN "second" ELSE "no"),
                  ![other].overlapped = IF overlap THEN "first" ELSE @]
          /\ lastOp' = Op("viewStart", 0, v, overlap)
    /\ activeRoadmap' = IF v = "roadmap"
                        THEN setActiveRoadmap(activeRoadmap, Null)
                        ELSE activeRoadmap
    /\ UNCHANGED now
    /\ OverlapFrame

\* a fragment arrives for the attempt of view v: the onChunk of the roadmap
\* view shows the accumulated text, the onChunk of the template view is empty
viewFragmentArrives(v) ==
    /\ views[v].attempt.pc = "streaming"
    /\ views[v].attempt.producer # <<>>
    /\ LET chunkText == Head(views[v].attempt.producer)
           after == consumeChunk(views[v].attempt, Null, FALSE)
       IN /\ views' =
               [views EXCEPT
                  ![v].attempt = after,
                  ![v].streamingResponse =
                      IF v = "roadmap" /\ chunkText # <<>>
                      THEN after.fullText ELSE @]
          /\ lastOp' = Op("viewChunk", 0, v, chunkText # <<>>)
    /\ UNCHANGED <<activeRoadmap, now>>
    /\ OverlapFrame

\* the stream of view v ends: its onComplete
viewStreamCompletes(v) ==
    /\ views[v].attempt.pc = "streaming"
    /\ views[v].attempt.producer = <<>>
    /\ LET done == consumeEnd(views[v].attempt, Null, FALSE)
           validated == processStreamedResponse(done.fullText)
           generatedData == IF validated.ok
                            THEN sanitizeOutcome(validated.value[1])
                            ELSE validated
       IN /\ done.pc = "returned"
          /\ IF generatedData.ok
             THEN \E dateNow \in (now + 1)..MaxOverlapClock :
                  \E random \in [Indices(generatedData.value[1].nodes.items)
                                   -> RandomNodeIds] :
                     LET made == newRoadmap(generatedData.value[1], random,
                                            dateNow)
                     IN /\ activeRoadmap' =
                             setActiveRoadmap(activeRoadmap, Some(made))
                        /\ now' = dateNow
                        /\ views' =
                             [views EXCEPT
                                ![v].isLoading = FALSE,
                                ![v].attempt = Idle,
                                ![v].outcome =
                                    Some(Outcome(TRUE, Some(made)))]
                        /\ lastOp' = Op("viewComplete", dateNow, v, TRUE)
             ELSE /\ views' =
                       [views EXCEPT
                          ![v].isLoading = FALSE,
                          ![v].error = Some(generatedData.thrown[1].message),
                          ![v].attempt = Idle,
                          ![v].outcome = Some(Outcome(FALSE, Null))]
                  /\ lastOp' = Op("viewComplete", 0, v, FALSE)
                  /\ UNCHANGED <<activeRoadmap, now>>
    /\ OverlapFrame

\* the SDK call or the producer of view v throws: its onError
viewStreamFails(v, thrown) ==
    /\ views[v].attempt.pc = "streaming"
    /\ LET failed == consumeThrow(views[v].attempt, thrown, FALSE)
           streamError == failed.calls[Len(failed.calls)].err[1]
       IN /\ failed.pc = "returned"
          /\ views' =
               [views EXCEPT
                  ![v].isLoading = FALSE,
                  ![v].error = Some(streamError.message),
                  ![v].attempt = Idle,
                  ![v].outcome = Some(Outcome(FALSE, Null))]
    /\ lastOp' = Op("viewFailed", 0, v, FALSE)
    /\ UNCHANGED <<activeRoadmap, now>>
    /\ OverlapFrame

NextOverlap ==
    \/ \E v \in ViewNames, response \in OverlapResponses :
          viewStart(v, response)
    \/ \E v \in ViewNames : viewFragmentArrives(v)
    \/ \E v \in ViewNames : viewStreamCompletes(v)
    \/ \E v \in ViewNames, thrown \in ThrownValues :
          viewStreamFails(v, thrown)

SpecOverlap == InitOverlap /\ [][NextOverlap]_vars

----------------------------------------------------------------------------
(* Properties of the stream consumer (checked under SpecStream) *)

CallsTo(cb) == LET Is(c) == c.cb = cb IN SelectSeq(calls, Is)

TextsOf(cs) == [i \in Indices(cs) |-> cs[i].text]

NonEmptyFragments(fs) == LET Is(f) == f # <<>> IN SelectSeq(fs, Is)

Settled == streamPc \in {"returned", "rejected"}

\* C1: in every attempt exactly one of onComplete/onError is invoked (never
\* both, and not neither once the attempt has ended), whatever the producer
\* and the callbacks do, and onComplete is invoked only when the producer is
\* exhausted and every fragment that carries text has been handed to onChunk
\* before it.
C1_ExactlyOneTerminalCallback ==
    /\ Len(CallsTo("onComplete")) + Len(CallsTo("onError")) <= 1
    /\ Settled => Len(CallsTo("onComplete")) + Len(CallsTo("onError")) = 1
    /\ \A i \in Indices(calls) :
          calls[i].cb = "onComplete" =>
             /\ producer = <<>>
             /\ TextsOf(SubSeq(calls, 1, i - 1)) = NonEmptyFragments(yielded)

\* C2 as stated: every fragment the producer yields is handed to onChunk
\* exactly once, in arrival order and unmodified, and onComplete receives
\* the concatenation of all yielded fragments.
C2_EveryFragmentForwarded ==
    /\ TextsOf(CallsTo("onChunk")) = yielded
    /\ \A i \in Indices(calls) :
          calls[i].cb = "onComplete" => calls[i].text = Concat(yielded)

\* C2 as amended: every fragment with a non-empty text is handed to onChunk
\* exactly once, in arrival order and unmodified (fragments whose text is
\* empty are skipped), and onComplete receives the concatenation of all
\* yielded fragments in that order.
C2_NonEmptyFragmentsForwarded ==
    /\ TextsOf(CallsTo("onChunk")) = NonEmptyFragments(yielded)
    /\ \A i \in Indices(calls) :
          calls[i].cb = "onComplete" => calls[i].text = Concat(yielded)

\* an attempt that completed after two different non-empty fragments with
\* an empty one between them
C2_Witness ==
    /\ streamPc = "returned"
    /\ yielded = << <<"y", "z">>, <<>>, <<"x">> >>
    /\ Len(CallsTo("onComplete")) = 1
    /\ Len(CallsTo("onChunk")) = 2

----------------------------------------------------------------------------
(* Properties of the history store and the progress tracker (under Spec) *)

PositionsOf(history, id) == {i \in Indices(history) : history[i].id = id}

\* C3: starting from an empty or duplicate-free stored history, the history
\* never holds two entries with the same roadmap id.
C3_NoDuplicateIds ==
    \A i, j \in Indices(roadmapHistory) :
        i # j => roadmapHistory[i].id # roadmapHistory[j].id

\* a save of an id that is already present in a history of several entries
C3_Witness ==
    /\ lastOp.op = "save"
    /\ lastOp.hit
    /\ Len(roadmapHistory) >= 2

\* C4: a save replaces the entry that has the active roadmap's id at its
\* index and leaves every other entry where it was; when no entry has that
\* id the roadmap is inserted at index 0 and the existing entries follow in
\* their order.
C4_UpsertPlacement ==
    [][lastOp'.op = "save" =>
         LET doc == activeRoadmap[1]
             before == roadmapHistory
             after == roadmapHistory'
         IN IF PositionsOf(before, doc.id) # {}
            THEN /\ Len(after) = Len(before)
                 /\ \A i \in Indices(before) :
                       after[i] = IF before[i].id = doc.id THEN doc
                                  ELSE before[i]
            ELSE /\ Len(after) = Len(before) + 1
                 /\ after[1] = doc
                 /\ \A i \in Indices(before) : after[i + 1] = before[i]
      ]_vars

\* a save that replaced an entry that is not the first of the history
C4_Witness ==
    /\ lastOp.op = "save"
    /\ lastOp.hit
    /\ Len(roadmapHistory) >= 2
    /\ roadmapHistory[2].id = lastOp.id
    /\ roadmapHistory[2] = activeRoadmap[1]

\* the contents a roadmap can be given without changing its id
SameIdVariants(doc) ==
    {[doc EXCEPT !.title = t,
                 !.nodes = [i \in Indices(doc.nodes) |->
                              [doc.nodes[i] EXCEPT !.completed = f[i]]]] :
        t \in {doc.title, "Edited"}, f \in [Indices(doc.nodes) -> BOOLEAN]}

\* C5: after a save, saving again under the same id (with the same or with
\* different content) leaves the history as long as the first save left it,
\* with exactly one entry for the id, at the position the first save gave
\* it, holding the content of the second save.
C5_SecondSaveInPlace ==
    lastOp.op = "save" =>
        \A doc2 \in SameIdVariants(activeRoadmap[1]) :
            LET first == roadmapHistory
                second == updateHistory(upsert(first, doc2))[1]
            IN /\ Len(second) = Len(first)
               /\ PositionsOf(second, doc2.id) = PositionsOf(first, doc2.id)
               /\ Cardinality(PositionsOf(second, doc2.id)) = 1
               /\ \A i \in PositionsOf(second, doc2.id) : second[i] = doc2
               /\ \A i \in Indices(first) :
                     first[i].id # doc2.id => second[i] = first[i]

\* the state after a second save of a roadmap that is not the newest entry
C5_Witness ==
    /\ lastOp.op = "save"
    /\ lastOp.hit
    /\ Len(roadmapHistory) >= 2
    /\ roadmapHistory[1].id # lastOp.id
    /\ \E i \in Indices(activeRoadmap[1].nodes) :
          activeRoadmap[1].nodes[i].completed

\* C6: delete(id) removes exactly the entry with that id and keeps the other
\* entries in their order; when no entry has the id the history is left as
\* it was, and the application keeps running.
C6_DeleteFrame ==
    [][lastOp'.op = "delete" =>
         LET id == lastOp'.id
             before == roadmapHistory
             after == roadmapHistory'
         IN /\ appStatus' = "running"
            /\ IF PositionsOf(before, id) # {}
               THEN \E p \in PositionsOf(before, id) :
                       after = SubSeq(before, 1, p - 1)
                               \o SubSeq(before, p + 1, Len(before))
               ELSE after = before
      ]_vars

\* a delete of an absent id from a history that is not empty
C6_Witness ==
    /\ lastOp.op = "delete"
    /\ ~lastOp.hit
    /\ Len(roadmapHistory) >= 1

\* C7: at startup an absent slot and a slot that does not deserialize into a
\* roadmap collection both yield an empty history, and startup does not fail.
C7_StartupTolerant ==
    (lastOp.op = "mount" /\ storage.kind \in {"absent", "corrupt", "foreign"})
        => (appStatus = "running" /\ roadmapHistory = <<>>)

\* C8: an active roadmap whose id is in the history equals its history
\* entry, in memory and in the storage slot (so their completed flags agree).
C8_ProgressInSync ==
    activeRoadmap # Null =>
        \A i \in PositionsOf(roadmapHistory, activeRoadmap[1].id) :
            /\ roadmapHistory[i] = activeRoadmap[1]
            /\ storage.kind = "collection"
            /\ Len(storage.items) = Len(roadmapHistory)
            /\ parseRoadmap(storage.items[i]) = activeRoadmap[1]

\* a toggle on a saved roadmap that is not the only entry
C8_Witness ==
    /\ lastOp.op = "toggle"
    /\ lastOp.hit
    /\ Len(roadmapHistory) >= 2
    /\ PositionsOf(roadmapHistory, activeRoadmap[1].id) # {}
    /\ \E i \in Indices(activeRoadmap[1].nodes) :
          activeRoadmap[1].nodes[i].completed

\* C9: a toggle on an active roadmap whose id is not in the history changes
\* the active roadmap and leaves the history and the storage slot as they
\* were.
C9_UnsavedToggleFrame ==
    [][(lastOp'.op = "toggle"
          /\ PositionsOf(roadmapHistory, activeRoadmap[1].id) = {}) =>
         /\ roadmapHistory' = roadmapHistory
         /\ storage' = storage
         /\ activeRoadmap' # activeRoadmap
      ]_vars

\* a toggle on an unsaved roadmap while the history is not empty
C9_Witness ==
    /\ lastOp.op = "toggle"
    /\ ~lastOp.hit
    /\ Len(roadmapHistory) >= 1
    /\ PositionsOf(roadmapHistory, activeRoadmap[1].id) = {}

\* C10: toggle(nodeId) flips the completed flag of exactly one node, the one
\* designated by nodeId, and changes nothing else of the roadmap: its id,
\* title, description, sources, the order of its nodes and every other node
\* and node field.
C10_ExactlyOneNodeFlipped ==
    [][lastOp'.op = "toggle" =>
         LET before == activeRoadmap[1]
             after == activeRoadmap'[1]
             flipped == {j \in Indices(before.nodes) :
                           after.nodes[j] # before.nodes[j]}
         IN /\ Len(after.nodes) = Len(before.nodes)
            /\ Cardinality(flipped) = 1
            /\ \A j \in flipped :
                  /\ before.nodes[j].id = lastOp'.node
                  /\ after.nodes[j] =
                       [before.nodes[j] EXCEPT
                          !.completed = ~before.nodes[j].completed]
            /\ [after EXCEPT !.nodes = before.nodes] = before
      ]_vars

----------------------------------------------------------------------------
(* Properties of extraction, validation and of the failure paths of one    *)
(* attempt (checked under SpecGenerate).  In the step that completes the    *)
(* stream, fullText is the accumulated text onComplete receives; after it,  *)
(* streamingResponse still holds that text.                                 *)

Completes == lastOp'.op = "complete"

Completed == lastOp.op = "complete"

\* C11: a parsed object whose title is missing, empty or not a string, or
\* whose nodes is missing or not an array, fails with the structural failure
\* and no roadmap becomes active.
C11_StructuralFailure ==
    [][(Completes /\ safeJsonParse(fullText).ok) =>
         LET object == safeJsonParse(fullText).value[1] IN
         (~IsString(object.title) \/ object.title = ""
             \/ ~object.nodes.isArray) =>
            /\ error' = Some(InvalidStructureMessage)
            /\ activeRoadmap' = Null
      ]_vars

\* C12: every roadmap a completed attempt produces has pairwise distinct
\* node ids.
C12_DistinctNodeIds ==
    (Completed /\ lastOp.hit) =>
        \A i, j \in Indices(activeRoadmap[1].nodes) :
            i # j => activeRoadmap[1].nodes[i].id # activeRoadmap[1].nodes[j].id

\* C13: the id and generatedAt of a produced roadmap are the time read at
\* completion and every node's completed flag is false, whatever id,
\* generatedAt or completed the input carries.
C13_SystemOwnedFields ==
    (Completed /\ lastOp.hit) =>
        /\ activeRoadmap # Null
        /\ now >= 1
        /\ activeRoadmap[1].id = now
        /\ activeRoadmap[1].generatedAt = now
        /\ \A i \in Indices(activeRoadmap[1].nodes) :
              ~activeRoadmap[1].nodes[i].completed

\* a roadmap produced from an input that carries id, generatedAt and
\* completed: true
C13_Witness ==
    /\ Completed
    /\ lastOp.hit
    /\ streamingResponse = <<"{", "c", "}">>
    /\ Len(activeRoadmap[1].nodes) = 2

HasFencedBlock(text) ==
    \E i, j \in Indices(text) : i < j /\ text[i] = Fence /\ text[j] = Fence

HasBracePair(text) ==
    \E i, j \in Indices(text) : i < j /\ text[i] = "{" /\ text[j] = "}"

\* C14: when the accumulated text holds neither a fenced block nor a '{'
\* followed later by a '}', the attempt ends with the extraction failure as
\* its error and with no active roadmap.
C14_NothingToExtract ==
    [][(Completes /\ ~HasFencedBlock(fullText) /\ ~HasBracePair(fullText)) =>
         /\ error' = Some(NoJsonMessage)
         /\ activeRoadmap' = Null
         /\ ~isLoading'
      ]_vars

\* an attempt that ended on a text whose braces are in the wrong order
C14_Witness ==
    /\ Completed
    /\ ~lastOp.hit
    /\ streamingResponse = <<"}", "p", "{">>
    /\ error = Some(NoJsonMessage)

TerminalFailure ==
    \/ lastOp.op = "failed"
    \/ Completed /\ ~lastOp.hit

\* C15: when an attempt ends in a terminal failure, the active roadmap and
\* the saved history, in memory and in storage, are what they were right
\* before the attempt was started.
C15_FailureLeavesRoadmaps ==
    TerminalFailure => Snapshot = beforeAttempt[1]

\* C16: the error shown after a terminal failure is the message of the
\* originating failure: what the producer threw, or the error of the
\* extractor or of the validator.
C16_OriginatingMessage ==
    /\ lastOp.op = "failed" => error = Some(<<lastOp.node>>)
    /\ (Completed /\ ~lastOp.hit) =>
          error \in {Some(NoJsonMessage), Some(InvalidStructureMessage),
                     Some(MalformedMessage(streamingResponse))}

\* C17: a canonical roadmap, serialized without the completed flags inside
\* a fenced block tagged json, comes back from extraction and validation
\* with its title, its description and the ids, titles and contents of its
\* nodes.
C17_RoundTrip ==
    \A R \in CanonicalRoadmaps :
        (Completed /\ streamingResponse = FencedJson(JSONstringifyStripped(R)))
        => /\ activeRoadmap # Null
           /\ activeRoadmap[1].title = R.title
           /\ activeRoadmap[1].description = R.description
           /\ Len(activeRoadmap[1].nodes) = Len(R.nodes)
           /\ \A i \in Indices(R.nodes) :
                 /\ activeRoadmap[1].nodes[i].id = R.nodes[i].id
                 /\ activeRoadmap[1].nodes[i].title = R.nodes[i].title
                 /\ activeRoadmap[1].nodes[i].content = R.nodes[i].content

----------------------------------------------------------------------------
(* Persistence of the history (checked under Spec) *)

IdsOf(history) == [i \in Indices(history) |-> history[i].id]

\* the roadmap ids the storage slot holds, in order
StoredIds(slot) ==
    IF slot.kind = "collection"
    THEN [i \in Indices(slot.items) |-> slot.items[i][1]]
    ELSE <<>>

\* how a sequence of ids may change in the step that leaves lastOp
ChangesBySaveOrDelete(before, after, op) ==
    after # before =>
        \/ /\ op.op = "save"
           /\ \A i \in Indices(before) : before[i] # op.id
           /\ after = <<op.id>> \o before
        \/ /\ op.op = "delete"
           /\ \E p \in Indices(before) :
                 /\ before[p] = op.id
                 /\ after = SubSeq(before, 1, p - 1)
                            \o SubSeq(before, p + 1, Len(before))

\* C18: once the history is loaded, the sequence of roadmap ids in the
\* history and in the storage slot changes only by a save of a roadmap whose
\* id is absent, which prepends it, and by a delete of a present id, which
\* removes it; every other operation leaves it as it was.
C18_PersistentOnlyBySaveAndDelete ==
    [][appStatus = "running" =>
         /\ ChangesBySaveOrDelete(IdsOf(roadmapHistory), IdsOf(roadmapHistory'),
                                  lastOp')
         /\ ChangesBySaveOrDelete(StoredIds(storage), StoredIds(storage'),
                                  lastOp')
         /\ lastOp'.op \in {"generate", "filesRead", "chunk", "complete",
                             "failed", "setupFailed", "load", "toggle",
                             "emptyPrompt"}
               => /\ IdsOf(roadmapHistory') = IdsOf(roadmapHistory)
                  /\ StoredIds(storage') = StoredIds(storage)
         /\ (lastOp'.op = "save" /\ lastOp'.hit)
               => /\ IdsOf(roadmapHistory') = IdsOf(roadmapHistory)
                  /\ StoredIds(storage') = StoredIds(storage)
      ]_vars

\* a first save of a generated roadmap on top of a stored one
C18_Witness ==
    /\ lastOp.op = "save"
    /\ ~lastOp.hit
    /\ IdsOf(roadmapHistory) = <<1, 0>>
    /\ StoredIds(storage) = <<1, 0>>

\* C19: after a save, a delete or a toggle of a saved roadmap the storage
\* slot holds the serialization of the in-memory history, and in no state of
\* the running application do the history and the persisted collection
\* differ.
C19_StorageMirrorsHistory ==
    appStatus = "running" =>
        /\ (lastOp.op \in {"save", "delete"}
              \/ (lastOp.op = "toggle" /\ lastOp.hit))
             => storage = stringify(roadmapHistory)
        /\ IF storage.kind = "collection"
           THEN parseCollection(storage) = roadmapHistory
           ELSE roadmapHistory = <<>>

\* a delete that left one of two saved roadmaps
C19_Witness ==
    /\ lastOp.op = "delete"
    /\ lastOp.hit
    /\ Len(roadmapHistory) = 1
    /\ storage = stringify(roadmapHistory)

----------------------------------------------------------------------------
(* The fenced tier of extraction (checked under SpecGenerate) *)

\* a text without its leading and trailing white space
Trim(text) ==
    LET solid == {i \in Indices(text) : ~IsSpace(text[i])} IN
    IF solid = {} THEN <<>>
    ELSE SubSeq(text, Min(solid),
                CHOOSE i \in solid : \A j \in solid : j <= i)

\* what stands between the first fence of a text and the fence that
\* follows it, without the tag json
FirstBlockInterior(text) ==
    LET fences == {i \in Indices(text) : text[i] = Fence}
        open == Min(fences)
        close == Min({i \in fences : i > open})
        inner == SubSeq(text, open + 1, close - 1)
    IN IF inner # <<>> /\ inner[1] = "json" THEN Tail(inner) ELSE inner

----------------------------------------------------------------------------
(* The brace tier of extraction and the end of a failed parse (checked      *)
(* under SpecGenerate)                                                       *)

\* the positions of a token in a text
Positions(text, t) == {i \in Indices(text) : text[i] = t}

Max(S) == CHOOSE x \in S : \A y \in S : y <= x

\* C21: when the text holds no fenced block and its first '{' precedes its
\* last '}', the candidate is the text from that '{' to that '}' inclusive:
\* extraction gives what a strict parse of it gives, so an object with prose
\* before and after it is extracted.
C21_BraceCandidate ==
    [][(Completes /\ ~HasFencedBlock(fullText) /\ HasBracePair(fullText)) =>
         LET open == Min(Positions(fullText, "{"))
             close == Max(Positions(fullText, "}"))
             candidate == SubSeq(fullText, open, close)
         IN IF JSONparse(candidate) = Null
            THEN /\ error' = Some(MalformedMessage(fullText))
                 /\ activeRoadmap' = Null
            ELSE /\ safeJsonParse(fullText) = Returned(JSONparse(candidate)[1])
                 /\ error' \notin {Some(NoJsonMessage),
                                   Some(MalformedMessage(fullText))}
      ]_vars

\* an attempt that produced the roadmap of an unfenced object with prose on
\* both sides
C21_Witness ==
    /\ Completed
    /\ lastOp.hit
    /\ streamingResponse = <<"p", "{", "u", "}", "p">>
    /\ activeRoadmap # Null
    /\ activeRoadmap[1].title = "T"

\* the candidate extraction chooses, as a nullable: the capture of the fence
\* pattern, or else the text from the first '{' to the last '}'
Candidate(text) ==
    IF fenceMatch(text) # Null THEN fenceMatch(text)
    ELSE IF HasBracePair(text)
    THEN Some(SubSeq(text, Min(Positions(text, "{")),
                     Max(Positions(text, "}"))))
    ELSE Null

\* C22: when the chosen candidate fails a strict parse, the attempt ends
\* with the extraction failure that quotes the text: the candidate is not
\* repaired, a fenced candidate is not retried with the brace rule, the
\* backend is not called again and no roadmap is produced.
C22_FailedParseIsTerminal ==
    [][(Completes /\ Candidate(fullText) # Null
          /\ JSONparse(Candidate(fullText)[1]) = Null) =>
         /\ error' = Some(MalformedMessage(fullText))
         /\ activeRoadmap' = Null
         /\ ~isLoading'
         /\ streamPc' = "idle"
         /\ producer' = <<>>
         /\ calls' = <<>>
         /\ now' = now
      ]_vars

\* an attempt that failed on a fenced candidate that is prose although an
\* object follows the block
C22_Witness ==
    /\ Completed
    /\ ~lastOp.hit
    /\ streamingResponse = <<Fence, "p", Fence, "{", "u", "}">>
    /\ error = Some(MalformedMessage(streamingResponse))
    /\ activeRoadmap = Null
    /\ streamPc = "idle"

----------------------------------------------------------------------------
(* Sanitisation of the nodes (checked under SpecGenerate) *)

\* the nodes of the object the completed text was validated into
InputNodes == processStreamedResponse(streamingResponse).value[1].nodes.items

\* C23: no node of a produced roadmap has an empty id, and two nodes whose
\* input id is missing or empty get generated ids that differ.
C23_GeneratedIds ==
    (Completed /\ lastOp.hit) =>
        LET out == activeRoadmap[1].nodes IN
        /\ Len(out) = Len(InputNodes)
        /\ \A i \in Indices(out) : Truthy(out[i].id)
        /\ \A i, j \in Indices(out) :
              (i # j /\ ~Truthy(InputNodes[i].id) /\ ~Truthy(InputNodes[j].id))
                 => out[i].id # out[j].id

\* C24: every parsed object with a non-empty title and an array nodes gives
\* a roadmap, with one node per element of nodes and no error, whatever its
\* other fields and the elements of nodes are.
C24_OnlyTitleAndNodesAreFatal ==
    [][(Completes /\ safeJsonParse(fullText).ok) =>
         LET object == safeJsonParse(fullText).value[1] IN
         (Truthy(object.title) /\ object.nodes.isArray) =>
            /\ lastOp'.hit
            /\ error' = Null
            /\ activeRoadmap' # Null
            /\ Len(activeRoadmap'[1].nodes) = Len(object.nodes.items)
      ]_vars

----------------------------------------------------------------------------
(* Load and delete and the active roadmap (checked under Spec) *)

\* C25: load(id) of an id in the history makes that entry the active
\* roadmap and leaves the history and the storage slot as they were; load of
\* an absent id changes neither the active roadmap nor the history.
C25_LoadFrame ==
    [][lastOp'.op = "load" =>
         LET id == lastOp'.id IN
         /\ roadmapHistory' = roadmapHistory
         /\ storage' = storage
         /\ IF PositionsOf(roadmapHistory, id) # {}
            THEN /\ activeRoadmap' # Null
                 /\ activeRoadmap'[1].id = id
                 /\ \E i \in PositionsOf(roadmapHistory, id) :
                       activeRoadmap'[1] = roadmapHistory[i]
            ELSE activeRoadmap' = activeRoadmap
      ]_vars

\* a load of the older of two saved roadmaps
C25_Witness ==
    /\ lastOp.op = "load"
    /\ lastOp.hit
    /\ Len(roadmapHistory) >= 2
    /\ activeRoadmap = Some(roadmapHistory[2])
    /\ storage = stringify(roadmapHistory)

\* C29: delete(id) sets the active roadmap to none when its id is id, and
\* then the roadmap is no longer displayed, so it cannot be saved again;
\* a delete of any other id leaves the active roadmap as it was.
C29_DeleteClearsActive ==
    [][lastOp'.op = "delete" =>
         IF activeRoadmap # Null /\ activeRoadmap[1].id = lastOp'.id
         THEN /\ activeRoadmap' = Null
              /\ ~DisplayRendered'
              /\ PositionsOf(roadmapHistory', lastOp'.id) = {}
         ELSE activeRoadmap' = activeRoadmap
      ]_vars

\* a delete of a saved roadmap while another roadmap stays active
C29_Witness ==
    /\ lastOp.op = "delete"
    /\ lastOp.hit
    /\ activeRoadmap # Null
    /\ activeRoadmap[1].id # lastOp.id
    /\ Len(roadmapHistory) >= 1

----------------------------------------------------------------------------
(* The loading state of an attempt (checked under SpecGenerateFair) *)

InFlight == streamPc \in {"reading", "streaming"}

\* C26: isLoading is true from the start of an attempt until its terminal
\* event and false after it, whichever the terminal event is, and every
\* attempt that was started leaves the loading state.
C26_LoadingEnds ==
    /\ [](appStatus = "running" => (isLoading <=> InFlight))
    /\ [][lastOp'.op \in {"complete", "failed", "setupFailed"}
            => (isLoading /\ ~isLoading')]_vars
    /\ (isLoading ~> ~isLoading)

\* an attempt that ended while its context files were read
C26_Witness ==
    /\ lastOp.op = "setupFailed"
    /\ ~isLoading
    /\ ~InFlight
    /\ error # Null

----------------------------------------------------------------------------
(* The two accumulators of an attempt (checked under Spec) *)

\* C28: while an attempt is in flight, the accumulator of handleGenerate and
\* the text shown to the user equal the fullText of the stream consumer,
\* which is the concatenation of the fragments yielded so far; at completion
\* they equal the text handed to onComplete.
C28_AccumulatorsInStep ==
    /\ [](InFlight =>
            /\ accumulatedText = fullText
            /\ streamingResponse = fullText
            /\ fullText = Concat(yielded))
    /\ [][Completes =>
            LET done == consumeEnd(Current, Null, FALSE)
                handed == done.calls[Len(done.calls)]
            IN /\ handed.cb = "onComplete"
               /\ accumulatedText = handed.text
               /\ streamingResponse' = handed.text]_vars

\* an attempt in flight after two fragments with text and an empty one
\* between them
C28_Witness ==
    /\ streamPc = "streaming"
    /\ yielded = << <<"{", "u">>, <<>>, <<"}">> >>
    /\ accumulatedText = <<"{", "u", "}">>
    /\ streamingResponse = accumulatedText

----------------------------------------------------------------------------
(* The outcome of an attempt (checked under Spec) *)

\* the step is a terminal event of an attempt
Terminates == lastOp'.op \in {"complete", "failed", "setupFailed"}

\* the step installs a roadmap made in this step as the active roadmap
Installs ==
    /\ activeRoadmap' # Null
    /\ activeRoadmap' # activeRoadmap
    /\ now' > now
    /\ activeRoadmap'[1].id = now'

\* C30: a terminal event of an attempt either installs a new roadmap as the
\* active one and leaves the error cleared, or sets an error message and
\* installs nothing; never both and never neither.
C30_ExactlyOneOutcome ==
    [][Terminates =>
         /\ error = Null
         /\ \/ Installs /\ error' = Null
            \/ ~Installs /\ error' # Null /\ error'[1] # <<>>
                  /\ activeRoadmap' = activeRoadmap
      ]_vars

\* an attempt that failed while a roadmap loaded during the attempt is
\* active
C30_Witness ==
    /\ Completed
    /\ ~lastOp.hit
    /\ error # Null
    /\ activeRoadmap # Null
    /\ activeRoadmap[1].id = 0

----------------------------------------------------------------------------
(* Overlapping attempts of the two views (checked under SpecOverlap) *)

\* the latest attempts of the two views were in flight together and both
\* have ended
BothTerminated ==
    \A v \in ViewNames :
        /\ views[v].outcome # Null
        /\ views[v].overlapped # "no"

\* C27: after two overlapping attempts have ended, the active roadmap is
\* the one of the attempt that completed last, whichever started first;
\* when the attempt that ended last failed, the roadmap the other attempt
\* installed is still the active one; and the history, in memory and in
\* storage, is what it was.
C27_LastCompletionWins ==
    /\ BothTerminated =>
          LET last == views[lastOp.node].outcome[1]
              earlier == views[OtherView(lastOp.node)].outcome[1]
          IN /\ lastOp.op \in {"viewComplete", "viewFailed"}
             /\ last.ok => activeRoadmap = last.roadmap
             /\ (~last.ok /\ earlier.ok) => activeRoadmap = earlier.roadmap
    /\ roadmapHistory = <<StoredRoadmap>>
    /\ storage = stringify(<<StoredRoadmap>>)

\* the template attempt started first and completed last, after the
\* roadmap attempt had installed its roadmap
C27_Witness ==
    /\ BothTerminated
    /\ lastOp.op = "viewComplete"
    /\ lastOp.node = "template"
    /\ views["template"].overlapped = "first"
    /\ views["template"].outcome[1].ok
    /\ views["roadmap"].outcome[1].ok
    /\ activeRoadmap = views["template"].outcome[1].roadmap
    /\ activeRoadmap # views["roadmap"].outcome[1].roadmap

====
